---- MODULE Spec2Model ----
(***************************************************************************)
(* CUHKSZ-Electricity: one run of main (src/main.go, lines 64-128) with    *)
(* the usage fetcher RequestData.GetMsg, the chat notifier                 *)
(* Telegram.SendMsg and the mail notifier Email.SendEmail                  *)
(* (src/utils/utils.go).                                                   *)
(*                                                                         *)
(* Strings are sequences of one-character strings, so that slicing         *)
(* (msg[:7]) and formatting (%.2f) are computed, not assumed.              *)
(* Amounts (usedAmp, allAmp, remaining) are integers counted in units of   *)
(* 1/Scale; with Scale = 8 every amount is a dyadic rational, on which     *)
(* float64 subtraction is exact and %.2f rounds half to even.              *)
(* The run starts after utils.LoadConfig has returned a configuration.     *)
(***************************************************************************)
EXTENDS Integers, Sequences, FiniteSets, TLC

\* ---------------------------------------------------------------- bounds
Scale ==
  8
MaxUsed ==
  12

\* ------------------------------------------------------ program constants
maxRetries ==
  5
sleepSeconds ==
  5
warningThreshold ==
  20
StatusOK ==
  200

\* ------------------------------------------------------- string literals
ExceededPrefix ==
  <<"W","a","r","n","i","n","g",":"," ","E","x","c","e","e","d","e","d"," ","l","i","m","i","t"," ","b","y"," ">>
LowPrefix ==
  <<"W","a","r","n","i","n","g",":"," ","R","e","m","a","i","n","i","n","g"," ","e","l","e","c","t","r","i","c","i","t","y"," ","i","s"," ","l","o","w",":"," ">>
NormalPrefix ==
  <<"R","e","m","a","i","n","i","n","g"," ","e","l","e","c","t","r","i","c","i","t","y",":"," ">>
FailedToRetrieve ==
  <<"F","a","i","l","e","d"," ","t","o"," ","r","e","t","r","i","e","v","e"," ","d","a","t","a">>
errMsg ==
  <<"E","r","r","o","r",":"," ","M","a","x","i","m","u","m"," ","r","e","t","r","y"," ","l","i","m","i","t"," ","r","e","a","c","h","e","d",".">>
WarningPrefix ==
  <<"W","a","r","n","i","n","g">>
Digits ==
  <<"0","1","2","3","4","5","6","7","8","9">>

\* ------------------------------------------------ fmt.Sprintf("%.2f", x)
\* n/d rounded to the nearest integer, ties to even (n >= 0, d > 0).
RoundHalfEven(n, d) ==
  LET q == n \div d
      r == n % d
  IN  IF 2 * r < d THEN q
      ELSE IF 2 * r > d THEN q + 1
      ELSE IF q % 2 = 0 THEN q ELSE q + 1

RECURSIVE DecStr(_)
\* decimal digits of a natural number, no leading zeros ("0" for zero)
DecStr(n) ==
  IF n < 10 THEN <<Digits[n + 1]>>
  ELSE DecStr(n \div 10) \o <<Digits[(n % 10) + 1]>>

\* the magnitude v/Scale (v >= 0) with two decimals
FmtAbs(v) ==
  LET h == RoundHalfEven(v * 100, Scale)
  IN  DecStr(h \div 100) \o <<".">> \o <<Digits[((h % 100) \div 10) + 1], Digits[(h % 10) + 1]>>

\* %.2f of the amount v/Scale: a sign for negative values, then the magnitude
Fmt2f(v) ==
  IF v < 0 THEN <<"-">> \o FmtAbs(-v) ELSE FmtAbs(v)

\* ------------------------------------------------------------ environment
\* What the usage API can answer to one POST: no answer at all, an answer
\* with a non-OK status, an OK answer whose body does not decode, or an OK
\* answer that decodes to a sample {usedAmp, allAmp}.
AllAmps ==
  {0, 10 * Scale, 21 * Scale}
Samples ==
  [usedAmp : 0..MaxUsed, allAmp : AllAmps]
NoSample ==
  [usedAmp |-> 0, allAmp |-> 0]
Responses ==
  {[kind |-> "transport", status |-> 0, decodes |-> FALSE, data |-> NoSample]}
  \cup {[kind |-> "http", status |-> s, decodes |-> FALSE, data |-> NoSample] : s \in {StatusOK, 204, 500}}
  \cup {[kind |-> "http", status |-> StatusOK, decodes |-> TRUE, data |-> d] : d \in Samples}
\* What the chat API can answer to one PostForm.
ChatResponses ==
  {[kind |-> "transport", status |-> 0], [kind |-> "http", status |-> StatusOK], [kind |-> "http", status |-> 500]}
\* The first step of SendEmail that fails, or "none".
EmailFailures ==
  {"none", "credentials", "secret", "client", "service", "send"}

\* ------------------------------------------------- RequestData.GetMsg
\* A variant whose low-quota test excludes the threshold itself.
GetMsgStrict(resp) ==
  IF resp.kind = "transport" THEN [msg |-> <<>>, err |-> "perform"]
  ELSE IF resp.status # StatusOK THEN [msg |-> <<>>, err |-> "status"]
  ELSE IF ~resp.decodes THEN [msg |-> <<>>, err |-> "decode"]
  ELSE LET remaining == resp.data.allAmp - resp.data.usedAmp
       IN  IF remaining < 0
             THEN [msg |-> ExceededPrefix \o Fmt2f(-remaining) \o <<"!">>, err |-> "nil"]
           ELSE IF remaining < warningThreshold * Scale
             THEN [msg |-> LowPrefix \o Fmt2f(remaining), err |-> "nil"]
           ELSE [msg |-> NormalPrefix \o Fmt2f(remaining), err |-> "nil"]
\* A variant that reports a non-OK status in the message, not in the error.
GetMsgInBand(resp) ==
  IF resp.kind = "transport" THEN [msg |-> <<>>, err |-> "perform"]
  ELSE IF resp.status # StatusOK THEN [msg |-> FailedToRetrieve, err |-> "nil"]
  ELSE IF ~resp.decodes THEN [msg |-> <<>>, err |-> "decode"]
  ELSE LET remaining == resp.data.allAmp - resp.data.usedAmp
       IN  IF remaining < 0
             THEN [msg |-> ExceededPrefix \o Fmt2f(-remaining) \o <<"!">>, err |-> "nil"]
           ELSE IF remaining <= warningThreshold * Scale
             THEN [msg |-> LowPrefix \o Fmt2f(remaining), err |-> "nil"]
           ELSE [msg |-> NormalPrefix \o Fmt2f(remaining), err |-> "nil"]
GetMsg(resp) ==
  IF resp.kind = "transport" THEN [msg |-> <<>>, err |-> "perform"]
  ELSE IF resp.status # StatusOK THEN [msg |-> <<>>, err |-> "status"]
  ELSE IF ~resp.decodes THEN [msg |-> <<>>, err |-> "decode"]
  ELSE LET remaining == resp.data.allAmp - resp.data.usedAmp
       IN  IF remaining < 0
             THEN [msg |-> ExceededPrefix \o Fmt2f(-remaining) \o <<"!">>, err |-> "nil"]
           ELSE IF remaining <= warningThreshold * Scale
             THEN [msg |-> LowPrefix \o Fmt2f(remaining), err |-> "nil"]
           ELSE [msg |-> NormalPrefix \o Fmt2f(remaining), err |-> "nil"]

\* ---------------------------------------------------- Telegram.SendMsg
SendMsg(resp) ==
  IF resp.kind = "transport" THEN "post"
  ELSE IF resp.status # StatusOK THEN "status"
  ELSE "nil"

\* ------------------------------------------------------ Email.SendEmail
SendEmail(failure) ==
  IF failure = "none" THEN "nil" ELSE failure

\* -------------------------------------------------------------- isWarning
\* A variant that looks for the prefix of the low-quota message only.
isWarningLowOnly(m) ==
  Len(m) >= 18 /\ SubSeq(m, 1, 18) = SubSeq(LowPrefix, 1, 18)
isWarning(m) ==
  Len(m) >= 7 /\ SubSeq(m, 1, 7) = WarningPrefix

\* ------------------------------------------------------------------ state
VARIABLES
  pc,        \* position of main: "fetch", "sleep", "notify", "emailErr", "emailOk", "exit", "done"
  count,     \* main's count
  msg,       \* main's msg
  err,       \* main's err ("nil" or the kind of error)
  sample,    \* the sample decoded by the last GetMsg call (NoSample if none)
  calls,     \* per GetMsg call so far: TRUE iff it returned an error
  delays,    \* number of time.Sleep calls that have returned
  slept,     \* seconds slept so far
  chatLog,   \* texts handed to Telegram.SendMsg, in order
  chatErr,   \* what the last Telegram.SendMsg returned ("none" before it)
  emailLog,  \* bodies handed to Email.SendEmail, in order
  emailErr,  \* what the last Email.SendEmail returned ("none" before it)
  exitCode   \* -1 while running, then the exit status of the process

vars ==
  <<pc, count, msg, err, sample, calls, delays, slept, chatLog, chatErr, emailLog, emailErr, exitCode>>

Init ==
  /\ pc = "fetch"
  /\ count = 0
  /\ msg = <<>>
  /\ err = "nil"
  /\ sample = NoSample
  /\ calls = <<>>
  /\ delays = 0
  /\ slept = 0
  /\ chatLog = <<>>
  /\ chatErr = "none"
  /\ emailLog = <<>>
  /\ emailErr = "none"
  /\ exitCode = -1

\* A variant of the loop condition that lets one more pass through.
LoopCondInclusive(c) ==
  c <= maxRetries
\* The loop condition, count < maxRetries (main.go 79).
LoopCond(c) ==
  c < maxRetries

\* A variant of the loop body that counts every attempt, also the successful one.
AttemptCountsAll(resp) ==
  /\ pc = "fetch"
  /\ LoopCond(count)
  /\ LET r == GetMsg(resp)
     IN  /\ msg' = r.msg
         /\ err' = r.err
         /\ calls' = Append(calls, r.err # "nil")
         /\ sample' = IF r.err = "nil" THEN resp.data ELSE NoSample
         /\ count' = count + 1
         /\ pc' = IF r.err # "nil" \/ r.msg = FailedToRetrieve THEN "sleep" ELSE "notify"
  /\ UNCHANGED <<delays, slept, chatLog, chatErr, emailLog, emailErr, exitCode>>
\* A variant of the loop body that reports each failed attempt to the chat.
AttemptNotifies(resp) ==
  /\ pc = "fetch"
  /\ LoopCond(count)
  /\ LET r == GetMsg(resp)
     IN  /\ msg' = r.msg
         /\ err' = r.err
         /\ calls' = Append(calls, r.err # "nil")
         /\ sample' = IF r.err = "nil" THEN resp.data ELSE NoSample
         /\ IF r.err # "nil" \/ r.msg = FailedToRetrieve
              THEN /\ count' = count + 1
                   /\ chatLog' = Append(chatLog, FailedToRetrieve)
                   /\ pc' = "sleep"
              ELSE /\ count' = count
                   /\ chatLog' = chatLog
                   /\ pc' = "notify"
  /\ UNCHANGED <<delays, slept, chatErr, emailLog, emailErr, exitCode>>
\* One pass of the loop body up to the sleep or the break (main.go 79-87).
Attempt(resp) ==
  /\ pc = "fetch"
  /\ LoopCond(count)
  /\ LET r == GetMsg(resp)
     IN  /\ msg' = r.msg
         /\ err' = r.err
         /\ calls' = Append(calls, r.err # "nil")
         /\ sample' = IF r.err = "nil" THEN resp.data ELSE NoSample
         /\ IF r.err # "nil" \/ r.msg = FailedToRetrieve
              THEN /\ count' = count + 1
                   /\ pc' = "sleep"
              ELSE /\ count' = count
                   /\ pc' = "notify"
  /\ UNCHANGED <<delays, slept, chatLog, chatErr, emailLog, emailErr, exitCode>>

\* time.Sleep returns and the loop condition is evaluated again (84, 79).
Sleep ==
  /\ pc = "sleep"
  /\ delays' = delays + 1
  /\ slept' = slept + sleepSeconds
  /\ pc' = IF LoopCond(count) THEN "fetch" ELSE "notify"
  /\ UNCHANGED <<count, msg, err, sample, calls, chatLog, chatErr, emailLog, emailErr, exitCode>>

\* A variant that ends the run as soon as the chat send of errMsg fails.
ExhaustedChatFatal(resp) ==
  /\ pc = "notify"
  /\ count = maxRetries
  /\ chatLog' = Append(chatLog, errMsg)
  /\ chatErr' = SendMsg(resp)
  /\ pc' = IF SendMsg(resp) # "nil" THEN "done" ELSE "emailErr"
  /\ exitCode' = IF SendMsg(resp) # "nil" THEN 1 ELSE exitCode
  /\ UNCHANGED <<count, msg, err, sample, calls, delays, slept, emailLog, emailErr>>
\* count == maxRetries: the chat send of errMsg, its result dropped (91-93).
ExhaustedChat(resp) ==
  /\ pc = "notify"
  /\ count = maxRetries
  /\ chatLog' = Append(chatLog, errMsg)
  /\ chatErr' = SendMsg(resp)
  /\ pc' = "emailErr"
  /\ UNCHANGED <<count, msg, err, sample, calls, delays, slept, emailLog, emailErr, exitCode>>

\* The email send of errMsg, then log.Fatal (95-98).
ExhaustedEmail(failure) ==
  /\ pc = "emailErr"
  /\ emailLog' = Append(emailLog, errMsg)
  /\ emailErr' = SendEmail(failure)
  /\ exitCode' = 1
  /\ pc' = "done"
  /\ UNCHANGED <<count, msg, err, sample, calls, delays, slept, chatLog, chatErr>>

\* A variant that ends the run as soon as the chat send of msg fails.
SuccessChatFatal(resp) ==
  /\ pc = "notify"
  /\ count # maxRetries
  /\ chatLog' = Append(chatLog, msg)
  /\ chatErr' = SendMsg(resp)
  /\ err' = SendMsg(resp)
  /\ pc' = IF SendMsg(resp) # "nil" THEN "exit" ELSE IF isWarning(msg) THEN "emailOk" ELSE "exit"
  /\ UNCHANGED <<count, msg, sample, calls, delays, slept, emailLog, emailErr, exitCode>>
\* count != maxRetries: the chat send of msg, its result kept in err (101-109).
SuccessChat(resp) ==
  /\ pc = "notify"
  /\ count # maxRetries
  /\ chatLog' = Append(chatLog, msg)
  /\ chatErr' = SendMsg(resp)
  /\ err' = SendMsg(resp)
  /\ pc' = IF isWarning(msg) THEN "emailOk" ELSE "exit"
  /\ UNCHANGED <<count, msg, sample, calls, delays, slept, emailLog, emailErr, exitCode>>

\* The email send of a warning message, its result only logged (110-115).
SuccessEmail(failure) ==
  /\ pc = "emailOk"
  /\ emailLog' = Append(emailLog, msg)
  /\ emailErr' = SendEmail(failure)
  /\ pc' = "exit"
  /\ UNCHANGED <<count, msg, err, sample, calls, delays, slept, chatLog, chatErr, exitCode>>

\* A variant that also fails the run when the email send failed.
ExitAnyFailure ==
  /\ pc = "exit"
  /\ exitCode' = IF err # "nil" \/ emailErr \notin {"nil", "none"} THEN 1 ELSE 0
  /\ pc' = "done"
  /\ UNCHANGED <<count, msg, err, sample, calls, delays, slept, chatLog, chatErr, emailLog, emailErr>>
\* log.Fatal if the chat send failed, else main returns (119-123).
Exit ==
  /\ pc = "exit"
  /\ exitCode' = IF err # "nil" THEN 1 ELSE 0
  /\ pc' = "done"
  /\ UNCHANGED <<count, msg, err, sample, calls, delays, slept, chatLog, chatErr, emailLog, emailErr>>

Next ==
  \/ \E resp \in Responses : Attempt(resp)
  \/ Sleep
  \/ \E resp \in ChatResponses : ExhaustedChat(resp)
  \/ \E failure \in EmailFailures : ExhaustedEmail(failure)
  \/ \E resp \in ChatResponses : SuccessChat(resp)
  \/ \E failure \in EmailFailures : SuccessEmail(failure)
  \/ Exit

Spec ==
  Init /\ [][Next]_vars

\* The program is one sequential thread: a step that is enabled is taken.
FairSpec ==
  Spec /\ WF_vars(Next)

\* ------------------------------------------- the retry driver's three states
Attempting ==
  pc \in {"fetch", "sleep"}
Succeeded ==
  pc \notin {"fetch", "sleep"} /\ count # maxRetries
ExhaustedRetries ==
  pc \notin {"fetch", "sleep"} /\ count = maxRetries

TypeOK ==
  /\ pc \in {"fetch", "sleep", "notify", "emailErr", "emailOk", "exit", "done"}
  /\ count \in 0..maxRetries
  /\ err \in {"nil", "perform", "status", "decode", "post"}
  /\ exitCode \in {-1, 0, 1}

\* ------------------------------------------------ vocabulary of the claims
HasPrefix(m, p) ==
  Len(m) >= Len(p) /\ SubSeq(m, 1, Len(p)) = p
Remaining ==
  sample.allAmp - sample.usedAmp
AllCallsErrored ==
  \A i \in 1..Len(calls) : calls[i]
DigitValue(c) ==
  CHOOSE d \in 0..9 : Digits[d + 1] = c
RECURSIVE ParseNat(_)
ParseNat(s) ==
  IF s = <<>> THEN 0 ELSE 10 * ParseNat(SubSeq(s, 1, Len(s) - 1)) + DigitValue(s[Len(s)])
\* "ddd.dd" read back as a number of hundredths
ParseHundredths(s) ==
  100 * ParseNat(SubSeq(s, 1, Len(s) - 3)) + ParseNat(SubSeq(s, Len(s) - 1, Len(s)))
IsFixed2(s) ==
  /\ Len(s) >= 4
  /\ s[Len(s) - 2] = "."
  /\ \A i \in (1..Len(s)) \ {Len(s) - 2} : \E d \in 1..10 : Digits[d] = s[i]

\* ---------------------------------------------------------------------- C1
\* C1: in a run where every call to the fetcher has returned an error, the
\* fetcher is called at most 5 times, the driver is never Succeeded, once
\* the loop is left exactly 5 calls were made and count = maxRetries
\* (ExhaustedRetries), and such a run does reach ExhaustedRetries.
C1_Safety ==
  AllCallsErrored =>
    /\ Len(calls) <= 5
    /\ ~Succeeded
    /\ (~Attempting => Len(calls) = 5 /\ count = 5 /\ ExhaustedRetries)
C1_ExhaustedAfterFive ==
  /\ []C1_Safety
  /\ ([]AllCallsErrored => <>ExhaustedRetries)
C1_Witness ==
  ExhaustedRetries /\ AllCallsErrored /\ Len(calls) = 5 /\ pc = "notify"

\* ---------------------------------------------------------------------- C2
\* C2: when the driver is Succeeded, the fetcher was called k = count + 1
\* times with k in 1..5, calls 1..k-1 errored and call k did not, exactly
\* k-1 delays elapsed, no fetch follows, and the text handed to the chat
\* notifier is the message that k-th call returned for its sample.
C2_SucceededAfterK ==
  Succeeded =>
    /\ Len(calls) = count + 1
    /\ Len(calls) \in 1..5
    /\ \A i \in 1..count : calls[i]
    /\ ~calls[count + 1]
    /\ delays = count
    /\ msg = GetMsg([kind |-> "http", status |-> 200, decodes |-> TRUE, data |-> sample]).msg
    /\ (chatLog # <<>> => chatLog = <<msg>>)
C2_Witness ==
  Succeeded /\ Len(calls) = 3 /\ delays = 2 /\ chatLog = <<msg>> /\ msg # <<>>

\* ---------------------------------------------------------------------- C3
\* C3: the driver sleeps after a failed attempt only while the incremented
\* counter is below the maximum, so a run whose 5 attempts all fail reaches
\* ExhaustedRetries with exactly 4 delays.
C3_NoSleepAfterLastAttempt ==
  /\ (pc = "sleep" => count < 5)
  /\ (ExhaustedRetries => delays = 4)

\* ---------------------------------------------------------------------- C4
\* C4: the exit status is non-zero exactly when the retry budget was
\* exhausted or the chat send of a fetched message returned an error; the
\* result of the email send never matters.
C4_ExitOutcome ==
  pc = "done" =>
    /\ exitCode \in {0, 1}
    /\ (exitCode # 0 <=> (ExhaustedRetries \/ (Succeeded /\ chatErr # "nil")))
C4_Witness ==
  pc = "done" /\ exitCode = 0 /\ emailLog # <<>> /\ emailErr = "send"

\* ---------------------------------------------------------------------- C5
\* C5: a finished run has made the chat send with the final message (the
\* fetched message, or the fixed error text on exhaustion); on the success
\* path the email send was made iff the sample is Exceeded or LowWarning
\* (remaining <= 20), and isWarning agrees with that; on the exhausted path
\* the email send was made.
C5_Channels ==
  /\ (Succeeded => (isWarning(msg) <=> Remaining <= 20 * Scale))
  /\ (pc = "done" =>
        /\ Len(chatLog) = 1
        /\ chatLog[1] = (IF Succeeded THEN msg ELSE errMsg)
        /\ (Succeeded => (emailLog # <<>> <=> Remaining <= 20 * Scale))
        /\ (Succeeded /\ emailLog # <<>> => emailLog = <<msg>>)
        /\ (ExhaustedRetries => emailLog = <<errMsg>>))
C5_Witness ==
  pc = "done" /\ Succeeded /\ Remaining < 0 /\ emailLog = <<msg>> /\ chatLog = <<msg>>

\* ---------------------------------------------------------------------- C6
\* C6: the message of a decoded sample has the Exceeded form iff
\* remaining < 0, the LowWarning form iff 0 <= remaining <= 20, the Normal
\* form iff remaining > 20, exactly one of the three; the Exceeded message
\* carries no minus sign and its number is -remaining to two decimals.
C6_Classification ==
  Succeeded =>
    /\ (HasPrefix(msg, ExceededPrefix) <=> Remaining < 0)
    /\ (HasPrefix(msg, LowPrefix) <=> (0 <= Remaining /\ Remaining <= 20 * Scale))
    /\ (HasPrefix(msg, NormalPrefix) <=> Remaining > 20 * Scale)
    /\ Cardinality({p \in {ExceededPrefix, LowPrefix, NormalPrefix} : HasPrefix(msg, p)}) = 1
    /\ (Remaining < 0 =>
          LET num == SubSeq(msg, Len(ExceededPrefix) + 1, Len(msg) - 1)
          IN  /\ msg[Len(msg)] = "!"
              /\ IsFixed2(num)
              /\ \A i \in 1..Len(msg) : msg[i] # "-"
              /\ 2 * (ParseHundredths(num) * Scale - (-Remaining) * 100) <= Scale
              /\ 2 * ((-Remaining) * 100 - ParseHundredths(num) * Scale) <= Scale)
C6_Witness ==
  Succeeded /\ Remaining = 20 * Scale /\ HasPrefix(msg, LowPrefix)

\* ---------------------------------------------------------------------- C7
\* C7: from ExhaustedRetries the run sends the fixed error text to the chat,
\* then makes one email send of the same text, then ends non-zero, whatever
\* the two sends return, and the fetcher is not called again.
C7_Order ==
  ExhaustedRetries =>
    /\ Len(calls) = 5
    /\ chatLog \in {<<>>, <<errMsg>>}
    /\ emailLog \in {<<>>, <<errMsg>>}
    /\ (emailLog # <<>> => chatLog = <<errMsg>>)
    /\ (exitCode # -1 => exitCode = 1 /\ emailLog = <<errMsg>>)
C7_ExhaustedPath ==
  /\ []C7_Order
  /\ (ExhaustedRetries ~> (pc = "done" /\ exitCode = 1 /\ chatLog = <<errMsg>> /\ emailLog = <<errMsg>>))
C7_Witness ==
  pc = "done" /\ ExhaustedRetries /\ chatErr = "status" /\ emailErr = "credentials" /\ exitCode = 1

\* ---------------------------------------------------------------------- C8
\* C8: an attempt leaves the loop (Succeeded) iff the fetcher returned no
\* error; a return with an error carries the empty message, a return
\* without one carries one of the three formatted messages, and the message
\* is never "Failed to retrieve data".
C8_Returns ==
  /\ msg # FailedToRetrieve
  /\ (calls # <<>> /\ calls[Len(calls)] => msg = <<>>)
  /\ (calls # <<>> /\ ~calls[Len(calls)] =>
        \E p \in {ExceededPrefix, LowPrefix, NormalPrefix} : HasPrefix(msg, p))
C8_AttemptStep ==
  pc = "fetch" => ((pc' = "notify" /\ count' = count) <=> ~calls'[Len(calls')])
C8_SucceedsIffNoError ==
  /\ []C8_Returns
  /\ [][C8_AttemptStep]_vars
C8_Witness ==
  pc = "sleep" /\ err = "status" /\ msg = <<>> /\ calls = <<TRUE>>

\* ---------------------------------------------------------------------- C9
\* C9: on the success path with a failed chat send, a finished run has made
\* exactly one email send if the message is a warning (remaining <= 20) and
\* none if it is Normal, and ends non-zero.
C9_ChatFailureKeepsEmail ==
  pc = "done" /\ Succeeded /\ chatErr # "nil" =>
    /\ exitCode = 1
    /\ (Remaining <= 20 * Scale => emailLog = <<msg>>)
    /\ (Remaining > 20 * Scale => emailLog = <<>>)
C9_Witness ==
  pc = "done" /\ Succeeded /\ chatErr = "status" /\ emailLog = <<msg>> /\ exitCode = 1

\* --------------------------------------------------------------------- C10
\* C10: nothing is sent while the driver is Attempting; a run makes at most
\* one chat send and at most one email send, the chat send first; count
\* stays within 0..5; the run terminates.
C10_Safety ==
  /\ (Attempting => chatLog = <<>> /\ emailLog = <<>>)
  /\ Len(chatLog) <= 1
  /\ Len(emailLog) <= 1
  /\ (emailLog # <<>> => chatLog # <<>>)
  /\ count \in 0..5
C10_SequentialRun ==
  /\ []C10_Safety
  /\ <>(pc = "done")
C10_Witness ==
  pc = "done" /\ Len(chatLog) = 1 /\ Len(emailLog) = 1 /\ count = 4
====
